---- MODULE Spec2Model ----
(***************************************************************************)
(* Model of table.c: an open-addressing hash table with linear probing and *)
(* synchronous rehashing.                                                  *)
(*                                                                         *)
(* Assumptions of the model:                                               *)
(*  - allocations succeed (malloc/calloc never return NULL, including the  *)
(*    zero-sized calloc of keys()/values() on an empty table);             *)
(*  - assertions are enabled, so assert(NULL) aborts the process;          *)
(*  - keys are the integers 1..NumKeys and equals is identity of keys;     *)
(*  - values are two distinguishable handles: the code never reads        *)
(*    through a value pointer, it only stores and returns it;             *)
(*  - the heap is not modelled: destroy ends the life of the table, and   *)
(*    the caller makes no call on a destroyed table (such a call reads    *)
(*    freed memory); the table variables then keep what was released.     *)
(***************************************************************************)
EXTENDS Integers, Sequences, FiniteSets, TLC

\* ---------------------------------------------------------------- bounds
\* the keys are 1..NumKeys
NumKeys == 7
\* top-level calls are made only while collisions < MaxCollisions
MaxCollisions == 2
\* rehash activations the call stack holds; one more is status "overflow"
MaxDepth == 2
\* hash values from -MaxHash to MaxHash are examined
MaxHash == 17
\* the fill scenario puts keys 1..NumFillKeys, more than INITIAL_CAPACITY
NumFillKeys == 9

\* ------------------------------------------------------ program constants
INITIAL_CAPACITY == 8
RESIZE_FACTOR == 2
\* LOAD_THRESHOLD is the rational LOAD_THRESHOLD_NUM / LOAD_THRESHOLD_DEN
LOAD_THRESHOLD_NUM == 3
LOAD_THRESHOLD_DEN == 4
\* width of the C type long / size_t
LONG_BITS == 64

NULL == 0
Keys == 1..NumKeys
Values == {1, 2}
HashSels == {"ident", "negpair"}

\* an Entry is <<key, value>>; an empty slot (NULL Entry*) is <<>>
NoEntry == <<>>
Entry(k, v) == <<k, v>>
key(e) == e[1]
value(e) == e[2]

\* table, size, capacity, collisions, rehashes: the fields of Table
\* hashSel:  the hash function given to create
\* stack:    the activations of rehash in progress, innermost first
\* status:   "ok", or how the process ended: "aborted" (assert), "hung" (a
\*           probe loop that never ends), "overflow" (stack or heap overrun)
\*           or "destroyed" (the table was released by destroy)
\* ret:      the value returned by the most recent top-level put
\* contents: for each key, the value most recently put for it (NULL: none)
VARIABLES table, size, capacity, collisions, rehashes, hashSel,
          stack, status, ret, contents

vars == <<table, size, capacity, collisions, rehashes, hashSel,
          stack, status, ret, contents>>

\* the user-supplied hash function (a long), one per scenario
hash(sel, k) ==
  CASE sel = "ident" -> k
    [] sel = "negpair" -> 1 - 2 * ((k + 1) \div 2)
    [] sel = "const" -> 7
    [] sel = "neg" -> 0 - k

\* the user-supplied equality of keys
equals(k1, k2) == k1 = k2

\* 2^n modulo m, by repeated squaring (2^n itself may not be representable)
RECURSIVE Pow2Mod(_, _)
Pow2Mod(n, m) ==
  IF n = 0 THEN 1 % m
  ELSE IF n % 2 = 0
  THEN LET h == Pow2Mod(n \div 2, m) IN (h * h) % m
  ELSE (2 * Pow2Mod(n - 1, m)) % m

\* hash % capacity as a signed remainder, truncating toward zero
StartIndex_Signed(h, cap) ==
  IF h >= 0 THEN h % cap ELSE 0 - ((0 - h) % cap)

\* int index = hash % tab->capacity: hash (long) is converted to the
\* unsigned type of capacity, i.e. taken modulo 2^LONG_BITS, before %.
StartIndex(h, cap) ==
  IF h >= 0 THEN h % cap
  ELSE (Pow2Mod(LONG_BITS, cap) + (h % cap)) % cap

\* the probe loop without the index update
NextIndex_Stay(index, cap) == index

\* the wrap-around going to slot 1 instead of slot 0
NextIndex_WrapToOne(index, cap) == IF index < cap - 1 THEN index + 1 ELSE 1

\* if(index < capacity - 1) index++; else index = 0;
NextIndex(index, cap) == IF index < cap - 1 THEN index + 1 ELSE 0

EmptyTable(cap) == [i \in 0..(cap - 1) |-> NoEntry]

\* the probe loop without the equals test: a probe stops at empty slots only
RECURSIVE ProbeFrom_NoMatch(_, _, _, _, _)
ProbeFrom_NoMatch(tbl, cap, k, index, steps) ==
  IF tbl[index] = NoEntry
  THEN [index |-> index, found |-> FALSE, steps |-> steps, hung |-> FALSE]
  ELSE IF steps + 1 >= cap
  THEN [index |-> index, found |-> FALSE, steps |-> steps + 1, hung |-> TRUE]
  ELSE ProbeFrom_NoMatch(tbl, cap, k, NextIndex(index, cap), steps + 1)

\* the probe loop with tab->collisions++ placed before the equals test
RECURSIVE ProbeFrom_CountsHit(_, _, _, _, _)
ProbeFrom_CountsHit(tbl, cap, k, index, steps) ==
  IF tbl[index] = NoEntry
  THEN [index |-> index, found |-> FALSE, steps |-> steps, hung |-> FALSE]
  ELSE IF equals(key(tbl[index]), k)
  THEN [index |-> index, found |-> TRUE, steps |-> steps + 1, hung |-> FALSE]
  ELSE IF steps + 1 >= cap
  THEN [index |-> index, found |-> FALSE, steps |-> steps + 1, hung |-> TRUE]
  ELSE ProbeFrom_CountsHit(tbl, cap, k, NextIndex(index, cap), steps + 1)

\* The probe loop shared by get, has and put.  steps counts the
\* executions of tab->collisions++.  hung is TRUE when the loop has seen
\* cap occupied slots without a match: it then never terminates.
RECURSIVE ProbeFrom(_, _, _, _, _)
ProbeFrom(tbl, cap, k, index, steps) ==
  IF tbl[index] = NoEntry
  THEN [index |-> index, found |-> FALSE, steps |-> steps, hung |-> FALSE]
  ELSE IF equals(key(tbl[index]), k)
  THEN [index |-> index, found |-> TRUE, steps |-> steps, hung |-> FALSE]
  ELSE IF steps + 1 >= cap
  THEN [index |-> index, found |-> FALSE, steps |-> steps + 1, hung |-> TRUE]
  ELSE ProbeFrom(tbl, cap, k, NextIndex(index, cap), steps + 1)

Probe(sel, tbl, cap, k) ==
  ProbeFrom(tbl, cap, k, StartIndex(hash(sel, k), cap), 0)

\* get that returns NULL for an absent key instead of failing the assertion
GetOp_NullOnMiss(sel, tbl, cap, k) ==
  LET p == Probe(sel, tbl, cap, k) IN
  IF p.hung THEN [outcome |-> "hung", val |-> NULL, steps |-> p.steps]
  ELSE IF p.found
  THEN [outcome |-> "value", val |-> value(tbl[p.index]), steps |-> p.steps]
  ELSE [outcome |-> "value", val |-> NULL, steps |-> p.steps]

\* get: outcome "value" with the stored value, or "abort" (assert(NULL))
GetOp(sel, tbl, cap, k) ==
  LET p == Probe(sel, tbl, cap, k) IN
  IF p.hung THEN [outcome |-> "hung", val |-> NULL, steps |-> p.steps]
  ELSE IF p.found
  THEN [outcome |-> "value", val |-> value(tbl[p.index]), steps |-> p.steps]
  ELSE [outcome |-> "abort", val |-> NULL, steps |-> p.steps]

\* has that answers true for any occupied home slot, without equals
HasOp_HomeOccupied(sel, tbl, cap, k) ==
  [outcome |-> "value",
   val |-> tbl[StartIndex(hash(sel, k), cap)] # NoEntry,
   steps |-> 0]

\* has
HasOp(sel, tbl, cap, k) ==
  LET p == Probe(sel, tbl, cap, k) IN
  IF p.hung THEN [outcome |-> "hung", val |-> FALSE, steps |-> p.steps]
  ELSE [outcome |-> "value", val |-> p.found, steps |-> p.steps]

\* the slots in index order, occupied ones only
RECURSIVE Scan(_, _, _)
Scan(tbl, cap, i) ==
  IF i >= cap THEN <<>>
  ELSE IF tbl[i] # NoEntry THEN <<tbl[i]>> \o Scan(tbl, cap, i + 1)
  ELSE Scan(tbl, cap, i + 1)

\* keys(): a calloc'ed array of sz elements, filled in scan order.
\* overflow is TRUE when more elements are written than were allocated.
KeysOp(tbl, sz, cap) ==
  LET s == Scan(tbl, cap, 0) IN
  [arr |-> [i \in 1..sz |-> IF i <= Len(s) THEN key(s[i]) ELSE NULL],
   overflow |-> Len(s) > sz]

\* values() that copies the keys, as keys() does
ValuesOp_Keys(tbl, sz, cap) ==
  LET s == Scan(tbl, cap, 0) IN
  [arr |-> [i \in 1..sz |-> IF i <= Len(s) THEN key(s[i]) ELSE NULL],
   overflow |-> Len(s) > sz]

\* values()
ValuesOp(tbl, sz, cap) ==
  LET s == Scan(tbl, cap, 0) IN
  [arr |-> [i \in 1..sz |-> IF i <= Len(s) THEN value(s[i]) ELSE NULL],
   overflow |-> Len(s) > sz]

\* the load test without the casts to double: an integer division
NeedsRehash_IntDiv(sz, cap) ==
  (sz \div cap) * LOAD_THRESHOLD_DEN >= LOAD_THRESHOLD_NUM

\* the load test with > in place of >=
NeedsRehash_Gt(sz, cap) == sz * LOAD_THRESHOLD_DEN > cap * LOAD_THRESHOLD_NUM

\* put without the load test: rehash is never called
NeedsRehash_Never(sz, cap) == FALSE

\* ((double)size / (double)capacity) >= LOAD_THRESHOLD
NeedsRehash(sz, cap) == sz * LOAD_THRESHOLD_DEN >= cap * LOAD_THRESHOLD_NUM

\* growth by addition in place of multiplication
NewCapacity_Add(cap) == cap + RESIZE_FACTOR

\* size_t newCap = tab->capacity * RESIZE_FACTOR
\* rehash squaring the capacity
NewCapacity_Square(cap) == cap * cap

NewCapacity(cap) == cap * RESIZE_FACTOR

\* put whose update path leaves the stored value as it is
PutCore_KeepsOld(sel, tbl, sz, cap, k, v) ==
  LET p == Probe(sel, tbl, cap, k) IN
  IF p.hung
  THEN [table |-> tbl, size |-> sz, steps |-> p.steps, found |-> FALSE,
        old |-> NULL, hung |-> TRUE, rehash |-> FALSE]
  ELSE IF p.found
  THEN [table |-> tbl,
        size |-> sz, steps |-> p.steps, found |-> TRUE,
        old |-> value(tbl[p.index]), hung |-> FALSE, rehash |-> FALSE]
  ELSE [table |-> [tbl EXCEPT ![p.index] = Entry(k, v)],
        size |-> sz + 1, steps |-> p.steps, found |-> FALSE,
        old |-> NULL, hung |-> FALSE,
        rehash |-> NeedsRehash(sz + 1, cap)]

\* put whose update path reads the value to return after storing the new one
PutCore_ReturnsNew(sel, tbl, sz, cap, k, v) ==
  LET p == Probe(sel, tbl, cap, k) IN
  IF p.hung
  THEN [table |-> tbl, size |-> sz, steps |-> p.steps, found |-> FALSE,
        old |-> NULL, hung |-> TRUE, rehash |-> FALSE]
  ELSE IF p.found
  THEN [table |-> [tbl EXCEPT ![p.index] = Entry(key(tbl[p.index]), v)],
        size |-> sz, steps |-> p.steps, found |-> TRUE,
        old |-> v, hung |-> FALSE, rehash |-> FALSE]
  ELSE [table |-> [tbl EXCEPT ![p.index] = Entry(k, v)],
        size |-> sz + 1, steps |-> p.steps, found |-> FALSE,
        old |-> NULL, hung |-> FALSE,
        rehash |-> NeedsRehash(sz + 1, cap)]

\* put with tab->size++ on the update path too
PutCore_SizeOnUpdate(sel, tbl, sz, cap, k, v) ==
  LET p == Probe(sel, tbl, cap, k) IN
  IF p.hung
  THEN [table |-> tbl, size |-> sz, steps |-> p.steps, found |-> FALSE,
        old |-> NULL, hung |-> TRUE, rehash |-> FALSE]
  ELSE IF p.found
  THEN [table |-> [tbl EXCEPT ![p.index] = Entry(key(tbl[p.index]), v)],
        size |-> sz + 1, steps |-> p.steps, found |-> TRUE,
        old |-> value(tbl[p.index]), hung |-> FALSE, rehash |-> FALSE]
  ELSE [table |-> [tbl EXCEPT ![p.index] = Entry(k, v)],
        size |-> sz + 1, steps |-> p.steps, found |-> FALSE,
        old |-> NULL, hung |-> FALSE,
        rehash |-> NeedsRehash(sz + 1, cap)]

\* put up to (not including) the call of rehash
PutCore(sel, tbl, sz, cap, k, v) ==
  LET p == Probe(sel, tbl, cap, k) IN
  IF p.hung
  THEN [table |-> tbl, size |-> sz, steps |-> p.steps, found |-> FALSE,
        old |-> NULL, hung |-> TRUE, rehash |-> FALSE]
  ELSE IF p.found
  THEN [table |-> [tbl EXCEPT ![p.index] = Entry(key(tbl[p.index]), v)],
        size |-> sz, steps |-> p.steps, found |-> TRUE,
        old |-> value(tbl[p.index]), hung |-> FALSE, rehash |-> FALSE]
  ELSE [table |-> [tbl EXCEPT ![p.index] = Entry(k, v)],
        size |-> sz + 1, steps |-> p.steps, found |-> FALSE,
        old |-> NULL, hung |-> FALSE,
        rehash |-> NeedsRehash(sz + 1, cap)]

\* rehash without tab->size = 0
ResetSize_Keep(sz) == sz

\* tab->size = 0 in rehash
ResetSize(sz) == 0

\* the rehash loop stopping one slot early
RehashLoopCond_Short(i, oldCap) == i < oldCap - 1

\* for( size_t i = 0; i < oldCap; i++ ) in rehash
RehashLoopCond(i, oldCap) == i < oldCap

\* the rehash loop from index i up to the next occupied old slot, or to the
\* index the loop ends at
RECURSIVE NextOccupied(_, _, _)
NextOccupied(oldTab, i, oldCap) ==
  IF ~RehashLoopCond(i, oldCap) THEN i
  ELSE IF oldTab[i] # NoEntry THEN i
  ELSE NextOccupied(oldTab, i + 1, oldCap)

\* a rehash in progress: the old slot array, its capacity, the loop index
Frame(oldTab, oldCap) == [oldTab |-> oldTab, oldCap |-> oldCap, i |-> 0]

Init ==
  /\ hashSel \in HashSels
  /\ table = EmptyTable(INITIAL_CAPACITY)
  /\ size = 0
  /\ capacity = INITIAL_CAPACITY
  /\ collisions = 0
  /\ rehashes = 0
  /\ stack = <<>>
  /\ status = "ok"
  /\ ret = NULL
  /\ contents = [k \in Keys |-> NULL]

Idle == status = "ok" /\ stack = <<>>
Callable == Idle /\ collisions < MaxCollisions

\* The effect of one call of put on the table fields and on the stack of
\* rehash activations; r is the result of PutCore for the call, rest is the
\* stack as it is when the call ends without rehashing.
PutEffect(r, rest) ==
  /\ collisions' = collisions + r.steps
  /\ UNCHANGED <<rehashes, hashSel>>
  /\ IF r.hung
     THEN /\ status' = "hung"
          /\ stack' = rest
          /\ UNCHANGED <<table, size, capacity>>
     ELSE IF r.rehash
     THEN IF Len(rest) >= MaxDepth
          THEN /\ status' = "overflow"
               /\ stack' = rest
               /\ table' = r.table
               /\ size' = r.size
               /\ UNCHANGED capacity
          ELSE /\ status' = status
               /\ stack' = <<Frame(r.table, capacity)>> \o rest
               /\ capacity' = NewCapacity(capacity)
               /\ table' = EmptyTable(NewCapacity(capacity))
               /\ size' = ResetSize(r.size)
     ELSE /\ status' = status
          /\ stack' = rest
          /\ table' = r.table
          /\ size' = r.size
          /\ UNCHANGED capacity

\* a top-level call put(tab, k, v); it returns in this step unless it
\* calls rehash, and then it returns NULL when the rehash ends
Put(k, v) ==
  /\ Callable
  /\ contents' = [contents EXCEPT ![k] = v]
  /\ LET r == PutCore(hashSel, table, size, capacity, k, v)
     IN /\ ret' = r.old
        /\ PutEffect(r, <<>>)

\* The for loop of rehash up to and including its next call of put, or, when
\* no occupied old slot is left, the end of rehash; when the outermost rehash
\* ends, the top-level put returns.
RehashStep ==
  /\ status = "ok"
  /\ stack # <<>>
  /\ LET f == Head(stack)
         rest == Tail(stack)
         j == NextOccupied(f.oldTab, f.i, f.oldCap)
     IN IF RehashLoopCond(j, f.oldCap)
        THEN PutEffect(PutCore(hashSel, table, size, capacity,
                               key(f.oldTab[j]), value(f.oldTab[j])),
                       <<[f EXCEPT !.i = j + 1]>> \o rest)
        ELSE /\ stack' = rest
             /\ rehashes' = rehashes + 1
             /\ UNCHANGED <<table, size, capacity, collisions, hashSel,
                            status>>
  /\ UNCHANGED <<ret, contents>>

\* a call get(tab, k)
Get(k) ==
  /\ Callable
  /\ LET g == GetOp(hashSel, table, capacity, k) IN
     /\ collisions' = collisions + g.steps
     /\ status' = IF g.outcome = "value" THEN status
                  ELSE IF g.outcome = "abort" THEN "aborted" ELSE "hung"
  /\ UNCHANGED <<table, size, capacity, rehashes, hashSel, stack, ret,
                 contents>>

\* has with tab->size++ in place of tab->collisions++
Has_BumpsSize(k) ==
  /\ Callable
  /\ LET h == HasOp(hashSel, table, capacity, k) IN
     /\ size' = size + h.steps
     /\ status' = IF h.outcome = "value" THEN status ELSE "hung"
  /\ UNCHANGED <<table, collisions, capacity, rehashes, hashSel, stack, ret,
                 contents>>

\* a call has(tab, k)
Has(k) ==
  /\ Callable
  /\ LET h == HasOp(hashSel, table, capacity, k) IN
     /\ collisions' = collisions + h.steps
     /\ status' = IF h.outcome = "value" THEN status ELSE "hung"
  /\ UNCHANGED <<table, size, capacity, rehashes, hashSel, stack, ret,
                 contents>>

\* a call keys(tab)
KeysCall ==
  /\ Callable
  /\ status' = IF KeysOp(table, size, capacity).overflow
               THEN "overflow" ELSE status
  /\ UNCHANGED <<table, size, capacity, collisions, rehashes, hashSel, stack,
                 ret, contents>>

\* a call values(tab)
ValuesCall ==
  /\ Callable
  /\ status' = IF ValuesOp(table, size, capacity).overflow
               THEN "overflow" ELSE status
  /\ UNCHANGED <<table, size, capacity, collisions, rehashes, hashSel, stack,
                 ret, contents>>

\* a call destroy(tab): every entry, the slot array and the Table are freed.
\* The table exists no longer and no further call is made on it.
Destroy ==
  /\ Idle
  /\ status' = "destroyed"
  /\ UNCHANGED <<table, size, capacity, collisions, rehashes, hashSel, stack,
                 ret, contents>>

Next ==
  \/ \E k \in Keys, v \in Values : Put(k, v)
  \/ RehashStep
  \/ \E k \in Keys : Get(k)
  \/ \E k \in Keys : Has(k)
  \/ KeysCall
  \/ ValuesCall
  \/ Destroy

Spec == Init /\ [][Next]_vars

\* The collision scenario: the hash function may also be the constant one;
\* with it only the keys of CollisionKeys are put (three keys never reach the
\* load threshold, so no rehash runs under the constant hash).
CollisionKeys == {1, 2, 3}
PutKeysFor(sel) == IF sel = "const" THEN CollisionKeys ELSE Keys

InitCollide ==
  /\ hashSel \in HashSels \cup {"const"}
  /\ table = EmptyTable(INITIAL_CAPACITY)
  /\ size = 0
  /\ capacity = INITIAL_CAPACITY
  /\ collisions = 0
  /\ rehashes = 0
  /\ stack = <<>>
  /\ status = "ok"
  /\ ret = NULL
  /\ contents = [k \in Keys |-> NULL]

NextCollide ==
  \/ \E k \in Keys, v \in Values : k \in PutKeysFor(hashSel) /\ Put(k, v)
  \/ RehashStep
  \/ \E k \in Keys : Get(k)
  \/ \E k \in Keys : Has(k)
  \/ KeysCall
  \/ ValuesCall
  \/ Destroy

SpecCollide == InitCollide /\ [][NextCollide]_vars

\* The fill scenario: the hash function may also be the negated identity,
\* under which the keys 1..NumFillKeys, more keys than the initial slot array
\* has slots, are put, all with the same value; their home slots are
\* distinct, so every one of these puts is within the collision budget.
FillKeys == 1..NumFillKeys
FillKeysFor(sel) == IF sel = "neg" THEN FillKeys ELSE Keys
FillValuesFor(sel) == IF sel = "neg" THEN {1} ELSE Values

InitFill ==
  /\ hashSel \in HashSels \cup {"neg"}
  /\ table = EmptyTable(INITIAL_CAPACITY)
  /\ size = 0
  /\ capacity = INITIAL_CAPACITY
  /\ collisions = 0
  /\ rehashes = 0
  /\ stack = <<>>
  /\ status = "ok"
  /\ ret = NULL
  /\ contents = [k \in FillKeys |-> NULL]

NextFill ==
  \/ \E k \in FillKeys, v \in Values :
        /\ k \in FillKeysFor(hashSel) /\ v \in FillValuesFor(hashSel)
        /\ Put(k, v)
  \/ RehashStep
  \/ \E k \in FillKeys : k \in FillKeysFor(hashSel) /\ Get(k)
  \/ \E k \in FillKeys : k \in FillKeysFor(hashSel) /\ Has(k)
  \/ KeysCall
  \/ ValuesCall
  \/ Destroy

SpecFill == InitFill /\ [][NextFill]_vars

TypeOK ==
  /\ capacity > 0
  /\ DOMAIN table = 0..(capacity - 1)
  /\ status \in {"ok", "aborted", "hung", "overflow", "destroyed"}

\* ------------------------------------------------------------ properties

\* get(k) and has(k) as they would run in the current state
GetNow(k) == GetOp(hashSel, table, capacity, k)
HasNow(k) == HasOp(hashSel, table, capacity, k)

\* get(k) and has(k) as they would run in the state a step leads to
GetNext(k) == GetOp(hashSel', table', capacity', k)
HasNext(k) == HasOp(hashSel', table', capacity', k)

\* the keys put so far
PutKeys == {k \in Keys : contents[k] # NULL}

\* the occupied slots, the entries and the keys of a slot array
Occupied(tbl) == {i \in DOMAIN tbl : tbl[i] # NoEntry}
EntriesOf(tbl) == {tbl[i] : i \in Occupied(tbl)}
KeysOf(tbl) == {key(e) : e \in EntriesOf(tbl)}

\* the step in which the outermost rehash ends and its top-level put returns;
\* Head(stack).oldTab is then the slot array that put handed to rehash
RehashReturns == RehashStep /\ stack' = <<>> /\ status' = "ok"

\* C1: round trip. When a top-level put(k, v) returns at once (insert or
\* update), get(k) run next returns v. When it calls rehash, its entry (k, v)
\* is in the slot array handed to rehash, and when that rehash returns get of
\* every key of that array returns the value stored with it.
C1_RoundTrip ==
  [][/\ \A k \in Keys, v \in Values :
          Put(k, v) =>
            IF stack' = <<>>
            THEN status' = "ok" =>
                   (GetNext(k).outcome = "value" /\ GetNext(k).val = v)
            ELSE Entry(k, v) \in EntriesOf(Head(stack').oldTab)
     /\ RehashReturns =>
          \A e \in EntriesOf(Head(stack).oldTab) :
             GetNext(key(e)).outcome = "value" /\ GetNext(key(e)).val = value(e)
    ]_vars

\* reached: after inserts, a rehash and an update that returned 1, get of a
\* key put with 2 returns 2
C1_Witness ==
  /\ Idle /\ rehashes = 1 /\ ret = 1
  /\ \E k \in Keys : contents[k] = 2 /\ GetNow(k).val = 2

\* C2: update semantics. put(k, v2) on a table where the last put for k was
\* put(k, v1) returns v1 at once, get(k) then returns v2, and size, capacity
\* and the set of occupied slots are unchanged.
C2_Update ==
  [][\A k \in Keys, v2 \in Values :
       (Put(k, v2) /\ contents[k] # NULL) =>
         /\ ret' = contents[k]
         /\ stack' = <<>> /\ status' = "ok"
         /\ GetNext(k).outcome = "value" /\ GetNext(k).val = v2
         /\ size' = size
         /\ capacity' = capacity
         /\ Occupied(table') = Occupied(table)]_vars

\* reached: an update has returned the old value 2 and the key now maps to 1
C2_Witness ==
  /\ Idle /\ ret = 2 /\ size = 1
  /\ \E k \in Keys : contents[k] = 1 /\ GetNow(k).val = 1

\* C3: membership. Between operations has(k) is true exactly for the keys
\* that were put.
C3_Membership ==
  Idle => \A k \in Keys :
            /\ HasNow(k).outcome = "value"
            /\ HasNow(k).val <=> (contents[k] # NULL)

\* reached: after a rehash, has is true of a key put and false of a key whose
\* home slot is occupied by another key
C3_Witness ==
  /\ Idle /\ rehashes = 1
  /\ \E k1, k2 \in Keys :
       /\ contents[k1] # NULL /\ HasNow(k1).val
       /\ contents[k2] = NULL /\ ~HasNow(k2).val /\ HasNow(k2).steps > 0

\* C4: growth keeps the contents. When a put that called rehash returns,
\* every entry of the slot array it handed to rehash (the keys stored before
\* the put, and the key just put) is retrievable with its value, no other key
\* is present, size is the number of these keys, the key/value pairs are the
\* ones most recently put, and capacity is larger than before the put.
C4_GrowthRetention ==
  [][RehashReturns =>
       LET f == Head(stack)
           old == KeysOf(f.oldTab)
       IN /\ \A e \in EntriesOf(f.oldTab) :
               /\ GetNext(key(e)).outcome = "value"
               /\ GetNext(key(e)).val = value(e)
               /\ contents'[key(e)] = value(e)
          /\ \A k \in Keys : HasNext(k).val => k \in old
          /\ old = {k \in Keys : contents'[k] # NULL}
          /\ size' = Cardinality(old)
          /\ capacity' > f.oldCap]_vars

\* reached: the put that inserted the sixth key has rehashed and returned,
\* and keys put with 1 and with 2 are both retrievable
C4_Witness ==
  /\ Idle /\ rehashes = 1 /\ capacity > INITIAL_CAPACITY
  /\ Cardinality(PutKeys) = 6
  /\ \A k \in PutKeys : GetNow(k).val = contents[k]
  /\ \E k1, k2 \in PutKeys : contents[k1] = 1 /\ contents[k2] = 2

\* C5: get and has agree. Between operations, and in the state get aborted
\* in, has(k) is true exactly when get(k) returns a value, and when has(k) is
\* false get(k) aborts.
C5_GetHasAgree ==
  (stack = <<>>) => \A k \in Keys :
     /\ HasNow(k).outcome = "value"
     /\ HasNow(k).val <=> (GetNow(k).outcome = "value")
     /\ ~HasNow(k).val => GetNow(k).outcome = "abort"

\* reached: get of an absent key has aborted on a non-empty table after
\* probing past another key
C5_Witness ==
  /\ status = "aborted" /\ size > 0
  /\ \E k \in Keys : /\ ~HasNow(k).val
                     /\ GetNow(k).outcome = "abort"
                     /\ GetNow(k).steps > 0

\* C6: size. Between operations size is the number of distinct keys put
\* (after updates too, before and after rehashes), and size <= capacity
\* in every state, the states inside rehash included.
C6_Size ==
  /\ size <= capacity
  /\ Idle => size = Cardinality(PutKeys)

\* reached: seven distinct keys are in the table after a rehash
C6_Witness ==
  Idle /\ rehashes = 1 /\ size = 7 /\ Cardinality(PutKeys) = 7

\* C7: load factor. On a fresh table and whenever a top-level put has
\* returned, size / capacity <= LOAD_THRESHOLD.
C7_LoadFactor ==
  Idle => size * LOAD_THRESHOLD_DEN <= capacity * LOAD_THRESHOLD_NUM

\* reached: the put that crossed the threshold has returned with the grown
\* table
C7_Witness ==
  Idle /\ rehashes = 1 /\ size = 6 /\ capacity = NewCapacity(INITIAL_CAPACITY)

\* C8: one rehash per crossing. A top-level put calls rehash exactly when its
\* key was absent and (size + 1) / capacity >= LOAD_THRESHOLD, and otherwise
\* returns with rehashes unchanged; a put inside rehash never calls rehash
\* (at most one rehash is in progress); rehashes is unchanged while the
\* rehash runs and is one more when it ends and the put returns.
C8_OneRehash ==
  [][/\ Len(stack') <= 1
     /\ status' # "overflow"
     /\ \A k \in Keys, v \in Values :
          Put(k, v) =>
            LET absent == ~HasNow(k).val
                crossed == (size + 1) * LOAD_THRESHOLD_DEN
                             >= capacity * LOAD_THRESHOLD_NUM
            IN /\ rehashes' = rehashes
               /\ (stack' # <<>>) <=> (absent /\ crossed)
     /\ RehashStep =>
          rehashes' = IF stack' = <<>> THEN rehashes + 1 ELSE rehashes
    ]_vars

\* reached: one put has rehashed and a later put has inserted a seventh key
\* without rehashing
C8_Witness ==
  Idle /\ rehashes = 1 /\ size = 7 /\ ret = NULL

\* C9: bulk retrieval. Between operations keys() and values() fill exactly
\* size elements; every key returned satisfies has; the keys are pairwise
\* different; values()[i] is get(keys()[i]).
C9_Bulk ==
  Idle =>
    LET ks == KeysOp(table, size, capacity)
        vs == ValuesOp(table, size, capacity)
        n  == Len(Scan(table, capacity, 0))
    IN /\ ~ks.overflow /\ ~vs.overflow
       /\ n = size
       /\ Len(ks.arr) = size /\ Len(vs.arr) = size
       /\ \A i \in 1..size :
            /\ ks.arr[i] \in Keys
            /\ HasNow(ks.arr[i]).val
            /\ GetNow(ks.arr[i]).outcome = "value"
            /\ GetNow(ks.arr[i]).val = vs.arr[i]
       /\ \A i, j \in 1..size : i # j => ~equals(ks.arr[i], ks.arr[j])

\* reached: after a rehash keys() is not in key order and values() holds
\* both values
C9_Witness ==
  /\ Idle /\ rehashes = 1 /\ size = 6
  /\ LET ks == KeysOp(table, size, capacity).arr
         vs == ValuesOp(table, size, capacity).arr
     IN /\ \E i \in 1..5 : ks[i] > ks[i + 1]
        /\ \E i, j \in 1..6 : vs[i] = 1 /\ vs[j] = 2

\* C10: boundary scenario. From a fresh table of capacity 8, while at most
\* five distinct keys have been put there is no rehash; once the put of the
\* sixth has returned, rehashes = 1, capacity = 16, size = 6, every key put
\* is retrievable with its value, has of a key never put is false, and
\* keys() has 6 elements.
C10_Boundary ==
  Idle =>
    /\ Cardinality(PutKeys) <= 5 => (rehashes = 0 /\ capacity = 8)
    /\ Cardinality(PutKeys) = 6 =>
         /\ rehashes = 1 /\ capacity = 16 /\ size = 6
         /\ \A k \in PutKeys :
              GetNow(k).outcome = "value" /\ GetNow(k).val = contents[k]
         /\ \A k \in Keys \ PutKeys : ~HasNow(k).val
         /\ Len(KeysOp(table, size, capacity).arr) = 6
         /\ Len(Scan(table, capacity, 0)) = 6

\* reached: six keys put, one rehash, and a seventh key that has is false of
C10_Witness ==
  /\ Idle /\ Cardinality(PutKeys) = 6 /\ rehashes = 1 /\ capacity = 16
  /\ \E k \in Keys : contents[k] = NULL /\ ~HasNow(k).val

\* the number of slots a probe for k passes: the least d such that the slot
\* d steps after the home slot is empty or holds a key equal to k (cap when
\* there is none)
Passed(sel, tbl, cap, k) ==
  LET home == StartIndex(hash(sel, k), cap)
      stops(d) == \/ tbl[(home + d) % cap] = NoEntry
                  \/ equals(key(tbl[(home + d) % cap]), k)
  IN IF stops(0) THEN 0
     ELSE CHOOSE d \in 1..cap :
            /\ d < cap => stops(d)
            /\ \A e \in 1..(d - 1) : ~stops(e)

\* C11: collisions. Every probe (top-level put, get, has, and each put
\* inside rehash) adds to collisions exactly the number of occupied slots
\* with another key it passes (no step that adds another number is a put,
\* get or has of that key); with the constant hash, once three distinct
\* keys are put, get returns each key's own value and collisions, 0 on the
\* fresh table, is at least 2.
C11_Collisions ==
  [][/\ Idle =>
          \A k \in Keys :
             collisions' # collisions + Passed(hashSel, table, capacity, k) =>
               /\ ~Get(k)
               /\ ~Has(k)
               /\ \A v \in Values : ~Put(k, v)
     /\ (~Idle /\ RehashStep /\ table' # table) =>
          \E e \in EntriesOf(Head(stack).oldTab) :
             /\ e \in EntriesOf(table') /\ e \notin EntriesOf(table)
             /\ collisions' =
                  collisions + Passed(hashSel, table, capacity, key(e))
     /\ ( /\ hashSel' = "const" /\ stack' = <<>>
          /\ Cardinality({k \in Keys : contents'[k] # NULL}) = 3 ) =>
          /\ collisions' >= 2
          /\ \A k \in Keys :
               contents'[k] # NULL =>
                 /\ GetNext(k).outcome = "value"
                 /\ GetNext(k).val = contents'[k]
    ]_vars

\* reached: constant hash, three keys put with both values, the third found
\* two slots after the home slot, collisions = 0 + 1 + 2
C11_Witness ==
  /\ hashSel = "const" /\ status = "ok" /\ size = 3 /\ collisions = 3
  /\ \A k \in CollisionKeys : GetNow(k).val = contents[k]
  /\ \E k \in CollisionKeys : GetNow(k).steps = 2
  /\ \E k1, k2 \in CollisionKeys : contents[k1] = 1 /\ contents[k2] = 2

\* the home index of key k: hash(k) mod capacity, non-negative
HomeIndex(sel, k, cap) == hash(sel, k) % cap

\* the distance, going forward cyclically, from the home index of the key
\* in slot j to slot j
Displacement(sel, tbl, cap, j) == (j - HomeIndex(sel, key(tbl[j]), cap)) % cap

\* C12: probe-chain reachability. In every reachable state, the states
\* between the re-insertions of a rehash included, every slot on the cyclic
\* forward path from the home index of the key in an occupied slot j up to
\* but excluding j is occupied.
C12_ProbeChain ==
  \A j \in Occupied(table) :
     \A e \in 0..(Displacement(hashSel, table, capacity, j) - 1) :
        table[(HomeIndex(hashSel, key(table[j]), capacity) + e) % capacity]
          # NoEntry

\* reached: between two re-insertions of a rehash, a key sits in a slot
\* before its home index, the probe having wrapped around
C12_Witness ==
  /\ stack # <<>> /\ status = "ok"
  /\ \E j \in Occupied(table) :
       /\ j < HomeIndex(hashSel, key(table[j]), capacity)
       /\ Displacement(hashSel, table, capacity, j) >= 1

\* no two distinct occupied slots of a slot array hold equal keys
UniqueKeys(tbl) ==
  \A i, j \in Occupied(tbl) :
     i # j => ~equals(key(tbl[i]), key(tbl[j]))

\* a rehash is in progress and has an entry left to re-insert
ReinsertPending ==
  /\ stack # <<>> /\ status = "ok"
  /\ RehashLoopCond(NextOccupied(Head(stack).oldTab, Head(stack).i,
                                  Head(stack).oldCap),
                     Head(stack).oldCap)

\* the result of the put that the rehash in progress issues next
NextReinsert ==
  LET f == Head(stack)
      j == NextOccupied(f.oldTab, f.i, f.oldCap)
  IN PutCore(hashSel, table, size, capacity,
             key(f.oldTab[j]), value(f.oldTab[j]))

\* C13: key uniqueness. In every reachable state no two distinct occupied
\* slots hold equal keys, in the current slot array and in the old array of
\* every rehash in progress; and the put that a rehash issues next finds no
\* equal key, so it takes the insert path.
C13_UniqueKeys ==
  /\ UniqueKeys(table)
  /\ \A n \in 1..Len(stack) : UniqueKeys(stack[n].oldTab)
  /\ ReinsertPending => ~NextReinsert.found /\ ~NextReinsert.hung

\* reached: a rehash has re-inserted at least two entries and its next put
\* probes past another key before it inserts
C13_Witness ==
  /\ ReinsertPending
  /\ Cardinality(Occupied(table)) >= 2
  /\ NextReinsert.steps >= 1
  /\ ~NextReinsert.found

RECURSIVE Pow(_, _)
Pow(b, n) == IF n = 0 THEN 1 ELSE b * Pow(b, n - 1)

\* C14: capacity. A step that changes capacity is no get, has, keys or
\* values: it is the start of a rehash (a put, top-level or issued by a
\* rehash, that reaches the load threshold), and it multiplies capacity by
\* RESIZE_FACTOR; the end of a rehash, and nothing else, adds 1 to rehashes;
\* capacity never shrinks; and whenever no rehash is in progress
\* capacity = INITIAL_CAPACITY * RESIZE_FACTOR^rehashes.
C14_Capacity ==
  [][/\ capacity' # capacity =>
          /\ \A k \in Keys : ~Get(k) /\ ~Has(k)
          /\ ~KeysCall /\ ~ValuesCall
          /\ Len(stack') = Len(stack) + 1
          /\ capacity' = capacity * RESIZE_FACTOR
     /\ Len(stack') > Len(stack) => capacity' = capacity * RESIZE_FACTOR
     /\ Len(stack') >= Len(stack) => rehashes' = rehashes
     /\ Len(stack') < Len(stack) =>
          /\ Len(stack') = Len(stack) - 1
          /\ rehashes' = rehashes + 1
     /\ capacity' >= capacity
     /\ stack = <<>> =>
          capacity = INITIAL_CAPACITY * Pow(RESIZE_FACTOR, rehashes)
     /\ stack' = <<>> =>
          capacity' = INITIAL_CAPACITY * Pow(RESIZE_FACTOR, rehashes')
    ]_vars

\* reached: one rehash has run, capacity is INITIAL_CAPACITY * RESIZE_FACTOR,
\* and a further key was put without a rehash
C14_Witness ==
  /\ Idle /\ rehashes = 1
  /\ capacity = INITIAL_CAPACITY * RESIZE_FACTOR
  /\ size = 7

\* C15: size equals occupancy. In every reachable state, that is whenever no
\* operation is in progress and between the re-insertions of a rehash, size
\* is the number of occupied slots of the current slot array.
C15_SizeOccupancy == size = Cardinality(Occupied(table))

\* reached: a rehash has re-inserted three entries into the new slot array
\* and has more to re-insert
C15_Witness ==
  /\ ReinsertPending
  /\ size = 3 /\ Cardinality(Occupied(table)) = 3
  /\ Cardinality(Occupied(Head(stack).oldTab)) > 3

\* a probe may start: no operation is in progress, or a rehash is about to
\* issue a put
ProbeMayStart == Idle \/ ReinsertPending

\* C16: probe termination. No probe loop runs forever; whenever a probe may
\* start (a top-level put, get or has, or a put issued by rehash) the slot
\* array has an empty slot and size < capacity, and the probe of every
\* put, get and has that may start passes fewer than capacity slots. This
\* holds also when more distinct keys are put than the initial slot array
\* has slots.
C16_ProbeTermination ==
  /\ status # "hung"
  /\ ProbeMayStart =>
       /\ size < capacity
       /\ \E i \in 0..(capacity - 1) : table[i] = NoEntry
  /\ Idle =>
       \A k \in FillKeys :
          /\ GetNow(k).outcome # "hung" /\ GetNow(k).steps < capacity
          /\ HasNow(k).outcome # "hung" /\ HasNow(k).steps < capacity
          /\ LET p == Probe(hashSel, table, capacity, k)
             IN ~p.hung /\ p.steps < capacity
  /\ ReinsertPending =>
       ~NextReinsert.hung /\ NextReinsert.steps < capacity

\* reached: more distinct keys than the initial slot array has slots have
\* been put; the rehash at the load threshold has made room for them, and
\* has of every key, one with an occupied home slot included, ends
C16_Witness ==
  /\ Idle /\ hashSel = "neg"
  /\ size = NumFillKeys /\ size > INITIAL_CAPACITY
  /\ KeysOf(table) = FillKeys
  /\ capacity = INITIAL_CAPACITY * RESIZE_FACTOR /\ rehashes = 1
  /\ \A k \in FillKeys : HasNow(k).outcome = "value" /\ HasNow(k).val

\* C17: read-only frame. A step that changes the slot array, size, capacity
\* or rehashes is no get, has, keys or values; a step that changes
\* collisions is no keys or values; and a step after which keys() or
\* values() returns another sequence than before is none of the four.
C17_ReadOnlyFrame ==
  [][/\ ( \/ table' # table \/ size' # size \/ capacity' # capacity
          \/ rehashes' # rehashes
          \/ KeysOp(table', size', capacity') # KeysOp(table, size, capacity)
          \/ ValuesOp(table', size', capacity')
               # ValuesOp(table, size, capacity) ) =>
          /\ \A k \in Keys : ~Get(k) /\ ~Has(k)
          /\ ~KeysCall
          /\ ~ValuesCall
     /\ collisions' # collisions => ~KeysCall /\ ~ValuesCall
    ]_vars

\* reached: one key in the table, and has of an absent key with the same
\* home index has run twice: collisions went up and nothing else changed
C17_Witness ==
  /\ Idle /\ size = 1 /\ rehashes = 0 /\ collisions = 2
  /\ Len(KeysOp(table, size, capacity).arr) = 1

HashValues == (0 - MaxHash)..MaxHash

\* C18: start index. For every hash value h, negative ones included, the
\* index at which put, get and has start probing is in 0..capacity-1 and is
\* h mod capacity (non-negative modulus), so keys with the same hash value
\* start at the same index; the operations do start there: a key whose home
\* slot is empty is inserted into that slot and not found by has, and a key
\* held by its home slot is found by get and has without a probe step.
C18_StartIndex ==
  /\ \A h \in HashValues :
       /\ StartIndex(h, capacity) \in 0..(capacity - 1)
       /\ StartIndex(h, capacity) = h % capacity
  /\ \A k \in Keys :
       /\ \A k2 \in Keys :
            (k2 > k /\ hash(hashSel, k2) = hash(hashSel, k)) =>
              StartIndex(hash(hashSel, k2), capacity)
                = StartIndex(hash(hashSel, k), capacity)
       /\ LET home == HomeIndex(hashSel, k, capacity)
              h == HasNow(k)
              g == GetNow(k)
          IN
          /\ table[home] = NoEntry =>
               /\ PutCore(hashSel, table, size, capacity, k, 1).table[home]
                    = Entry(k, 1)
               /\ h = [outcome |-> "value", val |-> FALSE, steps |-> 0]
          /\ (table[home] # NoEntry /\ equals(key(table[home]), k)) =>
               /\ h = [outcome |-> "value", val |-> TRUE, steps |-> 0]
               /\ g = [outcome |-> "value", val |-> value(table[home]),
                       steps |-> 0]

\* reached: capacity 16 after a rehash, two keys with the same negative
\* hash value in the table, one in the home slot 15 and the other, after
\* the wrap-around, in slot 0
C18_Witness ==
  /\ Idle /\ capacity = INITIAL_CAPACITY * RESIZE_FACTOR
  /\ \E k1, k2 \in Keys :
       /\ k1 # k2
       /\ hash(hashSel, k1) < 0
       /\ hash(hashSel, k1) = hash(hashSel, k2)
       /\ table[capacity - 1] # NoEntry /\ key(table[capacity - 1]) = k1
       /\ table[0] # NoEntry /\ key(table[0]) = k2
       /\ StartIndex(hash(hashSel, k2), capacity) = capacity - 1
====
